---- MODULE Spec2Model ----
(***************************************************************************)
(* Decision lifecycle engine of gc-api: the decisions repository and       *)
(* service (creation, human review, retrieval), the authentication         *)
(* middleware that resolves the client a request acts on, and the          *)
(* relational state they work on.                                          *)
(*                                                                         *)
(* The database is modelled by its committed rows.  A handler is split at  *)
(* the database round trips it awaits, so that requests interleave where   *)
(* the event loop lets them.  A prisma.$transaction keeps its writes in    *)
(* the request's own record until the commit step.                         *)
(***************************************************************************)
EXTENDS Integers, Sequences, FiniteSets, TLC

\* ------------------------------------------------------------------ bounds
\* Requests the service takes in a run (creations, reviews, reads).
MaxRequests == 3

\* ------------------------------------------------------- values and tables
\* Two concurrent request slots; a slot is reused once its request is done.
\* The second slot takes a request only while the first is busy.
Slots == {"a", "b"}
FirstSlot == "a"

\* Rows of the clients and users tables (ids are serial, from 1).
Clients == {1, 2}
Users == {1, 2}
\* An id that names no row: c.get("userId") || 0, an unset clientId.
NoId == 0
\* A timestamp column: null, or the instant new Date() gave (instants are
\* not told apart).
NoTime == 0
Now == 1
\* A JavaScript undefined / absent optional field.
Undefined == "<undefined>"

\* JavaScript truthiness of an optional string.
Truthy(s) == s \notin {Undefined, ""}

\* a || b on optional strings.
OrElse(a, b) == IF Truthy(a) THEN a ELSE b

VARIABLES
  subjectCompanies,  \* subject_companies table: sequence of rows, id = index
  deals,             \* deals table: sequence of rows, id = index
  decisions,         \* decisions table: sequence of rows, id = index
  contextSnapshots,  \* decision_context_snapshots rows
  humanOverrides,    \* decision_human_overrides rows
  memberships,       \* memberships rows
  decisionLinks,     \* decision_links rows
  clients,           \* clients rows, by id
  notifications,     \* notifications rows
  worker,            \* worker.ts module state: appReady, fastifyApp, the start-ups
  apiKeyConfigured,  \* env.API_KEY is set
  aiProvider,        \* which of env.OPENAI_API_KEY, env.ANTHROPIC_API_KEY is set
  reqs,              \* per slot: the request in flight and its locals
  served             \* number of requests taken so far

vars == <<subjectCompanies, deals, decisions, contextSnapshots, humanOverrides, memberships,
          decisionLinks, clients, notifications, worker,
          apiKeyConfigured, aiProvider, reqs, served>>

\* ------------------------------------------------ credentials and lookups
MasterKey == "master"
\* env.API_KEY as the process sees it.
EnvApiKey == IF apiKeyConfigured THEN MasterKey ELSE ""

\* What a caller can put in the x-api-key header and the apiKey query param.
ApiKeyHeaders == {"", "master", "key1", "bad"}
QueryKeys == {"", "key2"}
\* The authorization header: absent, or <<scheme, token>>.
NoHeader == <<"", "">>
AuthHeaders ==
  {NoHeader, <<"Basic", "key1">>}
    \cup {<<"Bearer", t>> : t \in {"master", "key2", "jwt1", "jwt2", "jwt3", "bad"}}
\* The x-client-id header as sent.
ClientIdHeaders == {"", "1", "2", "abc"}

\* parseInt(header, 10); the code maps NaN and 0 to null.
NaN == -1
parseInt(h) == IF h = "1" THEN 1 ELSE IF h = "2" THEN 2 ELSE NaN

extractApiKey(apiKeyHeader, queryKey) ==
  IF apiKeyHeader # "" THEN apiKeyHeader
  ELSE IF queryKey # "" THEN queryKey
  ELSE ""

extractBearerToken(authHeader) ==
  IF authHeader[1] = "Bearer" THEN authHeader[2] ELSE ""

\* prisma.client.findUnique({ where: { apiKey } }): client 1 holds "key1",
\* client 2 holds "key2".
resolveClientApiKey(apiKey) ==
  IF apiKey = "key1" THEN 1 ELSE IF apiKey = "key2" THEN 2 ELSE NoId

\* The sub claim of a token that verifies, "" for one that does not.
verifySupabaseJwt(token) ==
  IF token = "jwt1" THEN "sub1"
  ELSE IF token = "jwt2" THEN "sub2"
  ELSE IF token = "jwt3" THEN "sub3"
  ELSE ""

\* prisma.user.findUnique({ where: { supabaseAuthId } }); "sub3" signed up
\* with the identity provider but has no local user row.
resolveSupabaseUser(sub) ==
  IF sub = "sub1" THEN 1 ELSE IF sub = "sub2" THEN 2 ELSE NoId

findMembershipByUserAndClient(userId, clientId) ==
  {m \in memberships : m.userId = userId /\ m.clientId = clientId}

findActiveMembershipsForUser(userId) ==
  {m \in memberships : m.userId = userId /\ m.status = "ACTIVE"}

\* The client a session user acts on, NoId when none resolves.
resolveClientForUser(userId, requestedClientId) ==
  IF requestedClientId # NoId
  THEN LET found == findMembershipByUserAndClient(userId, requestedClientId)
       IN IF \E m \in found : m.status = "ACTIVE"
          THEN (CHOOSE m \in found : m.status = "ACTIVE").clientId
          ELSE NoId
  ELSE LET active == findActiveMembershipsForUser(userId)
       IN IF Cardinality(active) = 1
          THEN (CHOOSE m \in active : TRUE).clientId
          ELSE NoId

Passed(clientId, userId) == [ok |-> TRUE, clientId |-> clientId, userId |-> userId]
Rejected == [ok |-> FALSE, clientId |-> NoId, userId |-> NoId]

\* The session branch of authenticate, for a bearer token that is neither
\* the master key nor a client key.
authenticateSession(bearerToken, clientIdHeader) ==
  LET sub == verifySupabaseJwt(bearerToken)
      localUser == resolveSupabaseUser(sub)
      parsed == IF clientIdHeader # "" THEN parseInt(clientIdHeader) ELSE NoId
      requestedClientId == IF parsed # NoId /\ parsed # NaN THEN parsed ELSE NoId
  IN IF sub = "" THEN IF ~apiKeyConfigured THEN Passed(NoId, NoId) ELSE Rejected
     ELSE IF localUser = NoId THEN Passed(NoId, NoId)
     ELSE Passed(resolveClientForUser(localUser, requestedClientId), localUser)

\* authenticate: what next() runs with, or the 401.
authenticate(apiKeyHeader, queryKey, authHeader, clientIdHeader) ==
  LET apiKey == extractApiKey(apiKeyHeader, queryKey)
      bearerToken == extractBearerToken(authHeader)
  IN IF apiKey # "" /\ EnvApiKey # "" /\ apiKey = EnvApiKey
       THEN Passed(NoId, NoId)
     ELSE IF apiKey # "" /\ resolveClientApiKey(apiKey) # NoId
       THEN Passed(resolveClientApiKey(apiKey), NoId)
     ELSE IF bearerToken # "" /\ EnvApiKey # "" /\ bearerToken = EnvApiKey
       THEN Passed(NoId, NoId)
     ELSE IF bearerToken # "" /\ resolveClientApiKey(bearerToken) # NoId
       THEN Passed(resolveClientApiKey(bearerToken), NoId)
     ELSE IF bearerToken # ""
       THEN authenticateSession(bearerToken, clientIdHeader)
     ELSE IF ~apiKeyConfigured THEN Passed(NoId, NoId)
     ELSE Rejected


\* What authenticate makes of the requests callers can send.
AuthOutcomes ==
  {authenticate(apiKeyHeader, queryKey, authHeader, clientIdHeader) :
     apiKeyHeader \in ApiKeyHeaders, queryKey \in QueryKeys,
     authHeader \in AuthHeaders, clientIdHeader \in ClientIdHeaders}

\* ------------------------------------------------- decisions repository
\* An update branch that writes every attribute as sent, blank or not.
UpdateCompanyBlanking(row, companyData) ==
  [row EXCEPT !.name = companyData.name, !.domain = companyData.domain]

\* findOrCreateSubjectCompany's update branch: a blank attribute is sent as
\* undefined, which leaves the column as it is.
UpdateCompany(row, companyData) ==
  [row EXCEPT !.name = companyData.name,
              !.domain = IF Truthy(companyData.domain) THEN companyData.domain ELSE @]

\* findOrCreateSubjectCompany's create branch: a blank attribute is stored
\* as null.
NewCompany(clientId, companyData) ==
  [clientId |-> clientId, externalId |-> companyData.externalId,
   name |-> companyData.name,
   domain |-> OrElse(companyData.domain, Undefined)]

\* The row the where clause { clientId_externalId } names, NoId if none.
CompanyByKey(table, clientId, externalId) ==
  LET hit == {i \in 1..Len(table) : /\ table[i].clientId = clientId
                                     /\ table[i].externalId = externalId}
  IN IF hit = {} THEN NoId ELSE CHOOSE i \in hit : TRUE

\* prisma.subjectCompany.upsert run with nothing in between: the table after.
UpsertCompany(table, clientId, companyData) ==
  LET id == CompanyByKey(table, clientId, companyData.externalId)
  IN IF id = NoId THEN Append(table, NewCompany(clientId, companyData))
     ELSE [table EXCEPT ![id] = UpdateCompany(@, companyData)]

\* A create that writes the decision as already approved.
NewDecisionApproved(data) ==
  [clientId |-> data.clientId, subjectCompanyId |-> data.subjectCompanyId,
   dealId |-> data.dealId, decisionType |-> data.decisionType,
   recommendedAction |-> data.recommendedAction,
   status |-> "APPROVED", finalAction |-> data.recommendedAction,
   decidedBy |-> NoId, decidedAt |-> Now]

\* The decision row prisma.decision.create writes.
NewDecision(data) ==
  [clientId |-> data.clientId, subjectCompanyId |-> data.subjectCompanyId,
   dealId |-> data.dealId, decisionType |-> data.decisionType,
   recommendedAction |-> data.recommendedAction,
   status |-> "PROPOSED", finalAction |-> Undefined,
   decidedBy |-> NoId, decidedAt |-> NoTime]

\* The snapshot row nested in the same create.
NewSnapshot(decisionId, data) ==
  [decisionId |-> decisionId, signals |-> data.signals,
   agentRationale |-> OrElse(data.agentRationale, Undefined)]

\* The insert without the unique index on decision_id.
CreateSnapshotUnchecked(table, row) == [ok |-> TRUE, table |-> Append(table, row)]

\* An insert into decision_context_snapshots: the unique index on
\* decision_id refuses a second row of a decision.
CreateSnapshot(table, row) ==
  IF \E i \in 1..Len(table) : table[i].decisionId = row.decisionId
  THEN [ok |-> FALSE, table |-> table]
  ELSE [ok |-> TRUE, table |-> Append(table, row)]

\* findDecisionById without the tenant filter: the row of that id whoever
\* owns it.
findDecisionByIdUnscoped(decisionId, clientId) ==
  IF decisionId \in 1..Len(decisions) THEN decisionId ELSE NoId

\* findDecisionById(decisionId, clientId?): the id of the row found, NoId
\* for null.  The client filter is added only for a truthy clientId.
findDecisionById(decisionId, clientId) ==
  IF /\ decisionId \in 1..Len(decisions)
     /\ (clientId # NoId => decisions[decisionId].clientId = clientId)
  THEN decisionId ELSE NoId

\* getDecisionById(decisionId, clientId?)
getDecisionById(decisionId, clientId) == findDecisionById(decisionId, clientId)

\* The row prisma.decisionLink.create writes.
NewLink(fromDecisionId, toDecisionId, relationshipType) ==
  [fromDecisionId |-> fromDecisionId, toDecisionId |-> toDecisionId,
   relationshipType |-> relationshipType]

\* An insert into decision_links: both foreign keys must name a decision
\* and the unique index on (from, to, relationship) refuses a second row.
CreateLink(table, rows, row) ==
  IF row.fromDecisionId \notin 1..Len(rows) \/ row.toDecisionId \notin 1..Len(rows)
    THEN [ok |-> FALSE, error |-> "P2003", table |-> table]
  ELSE IF \E i \in 1..Len(table) : table[i] = row
    THEN [ok |-> FALSE, error |-> "P2002", table |-> table]
  ELSE [ok |-> TRUE, error |-> "", table |-> Append(table, row)]

\* ------------------------------------------------------ review service
\* What a caller can send as the review body.
BodyActions == {"approve", "reject", "override", "escalate", "archive"}
Notes == {Undefined, "too risky"}
FinalActionTexts == {Undefined, "approved 20%"}
\* What generateDecisionRecommendation can return as recommendation.
Recommendations == {"review_manually", "approve"}

\* reviewDecisionSchema: z.enum of the actions the route accepts.
reviewDecisionSchema == {"approve", "reject", "override", "escalate"}

\* The switch with literal final actions only: the recommendation and the
\* caller's text are ignored.
MapActionLiteral(action, recommendedAction, final_action) ==
  CASE action = "approve" ->
         [ok |-> TRUE, status |-> "APPROVED", finalAction |-> "approved"]
    [] action = "reject" ->
         [ok |-> TRUE, status |-> "REJECTED", finalAction |-> "rejected"]
    [] action = "override" ->
         [ok |-> TRUE, status |-> "OVERRIDDEN", finalAction |-> "overridden"]
    [] OTHER -> [ok |-> FALSE, status |-> "", finalAction |-> Undefined]

\* The switch with a case that puts a decision back to PROPOSED.
MapActionReopens(action, recommendedAction, final_action) ==
  CASE action = "approve" ->
         [ok |-> TRUE, status |-> "APPROVED",
          finalAction |-> OrElse(recommendedAction, "approved")]
    [] action = "reject" ->
         [ok |-> TRUE, status |-> "PROPOSED", finalAction |-> Undefined]
    [] action = "override" ->
         [ok |-> TRUE, status |-> "OVERRIDDEN",
          finalAction |-> OrElse(final_action, "overridden")]
    [] OTHER -> [ok |-> FALSE, status |-> "", finalAction |-> Undefined]

\* The switch of processDecisionReview: the status and final action of the
\* update, or the thrown "Invalid action".
MapAction(action, recommendedAction, final_action) ==
  CASE action = "approve" ->
         [ok |-> TRUE, status |-> "APPROVED",
          finalAction |-> OrElse(recommendedAction, "approved")]
    [] action = "reject" ->
         [ok |-> TRUE, status |-> "REJECTED", finalAction |-> "rejected"]
    [] action = "override" ->
         [ok |-> TRUE, status |-> "OVERRIDDEN",
          finalAction |-> OrElse(final_action, "overridden")]
    [] OTHER -> [ok |-> FALSE, status |-> "", finalAction |-> Undefined]

\* The condition without its test of the status: any review with a note
\* records an override.
RecordsOverrideAnyStatus(status, overrideUserId, overrideReason) ==
  Truthy(overrideReason)

\* updateDecisionStatus: whether the transaction also creates the override.
RecordsOverride(status, overrideUserId, overrideReason) ==
  status = "OVERRIDDEN" /\ overrideUserId # NoId /\ Truthy(overrideReason)

\* tx.decision.update that also rewrites the decision's type.
UpdatedDecisionRetyped(row, r) ==
  [row EXCEPT !.status = r.status, !.finalAction = r.finalAction,
              !.decidedBy = r.userId, !.decidedAt = r.decidedAt,
              !.decisionType = "CUSTOM"]

\* The decision row after tx.decision.update.
UpdatedDecision(row, r) ==
  [row EXCEPT !.status = r.status, !.finalAction = r.finalAction,
              !.decidedBy = r.userId, !.decidedAt = r.decidedAt]

\* The row tx.decisionHumanOverride.create writes.
NewOverride(r) ==
  [decisionId |-> r.decisionId, userId |-> r.overrideUserId,
   overrideAction |-> "MODIFIED", overrideReason |-> r.overrideReason]


\* findOrCreateDeal's lookup: the deal of that company with that CRM id.
DealByCrmId(subjectCompanyId, crmDealId) ==
  LET hit == {i \in 1..Len(deals) : /\ deals[i].subjectCompanyId = subjectCompanyId
                                     /\ deals[i].crmDealId = crmDealId}
  IN IF hit = {} THEN NoId ELSE CHOOSE i \in hit : TRUE

\* The row prisma.deal.create writes.
NewDeal(subjectCompanyId, dealData) ==
  [subjectCompanyId |-> subjectCompanyId,
   crmDealId |-> OrElse(dealData.crm_deal_id, Undefined)]

\* ------------------------------------------- context and recommendation
\* How the fetch of the company's website ends.
Fetches == {"ok", "not ok", "timeout", "network error"}

\* gatherWebsiteSignals: a fetch that throws or is not ok gives exists: false.
gatherWebsiteSignals(fetched) ==
  IF fetched \in {"timeout", "network error"}
  THEN [threw |-> FALSE, exists |-> FALSE]
  ELSE [threw |-> FALSE, exists |-> fetched = "ok"]

\* gatherContext: the default bundle, with the website signals when the
\* company has a domain; what the collectors throw is caught.
gatherContext(companyInfo, fetched) ==
  LET websiteSignals == gatherWebsiteSignals(fetched)
  IN IF Truthy(companyInfo.domain) /\ ~websiteSignals.threw
     THEN [threw |-> FALSE, website |-> [exists |-> websiteSignals.exists]]
     ELSE [threw |-> FALSE, website |-> [exists |-> FALSE]]

\* extractDecisionFacts, as far as the signals gathered go.
extractDecisionFacts(signals) ==
  IF ~signals.website.exists
  THEN <<"No website found or website inaccessible">>
  ELSE <<>>

\* Which provider key the environment holds.
AiProviders == {"none", "openai", "anthropic"}

\* How the provider's call ends: it throws, or it answers with a content.
ReplyKinds ==
  {"network error", "timeout", "provider error", "empty", "malformed",
   "null", "incomplete", "json"}
FailingReplies == ReplyKinds \ {"json"}
\* The recommendation and confidence of a JSON answer, valid or not.
ProviderReplies ==
  [kind : FailingReplies, recommendation : {""}, confidence : {""}]
    \cup [kind : {"json"}, recommendation : {"approve", "maybe"},
          confidence : {"high", "certain"}]

Threw == [threw |-> TRUE, recommendation |-> "", confidence |-> ""]
Returned(recommendation, confidence) ==
  [threw |-> FALSE, recommendation |-> recommendation, confidence |-> confidence]

\* A fallback that approves.
getFallbackRecommendationApproving(facts) == Returned("approve", "high")

\* getFallbackRecommendation
getFallbackRecommendation(facts) == Returned("review_manually", "low")

\* generateWithOpenAI: throws on a failed call and on an empty, unparsable
\* or incomplete content; normalises values outside the enumerations.
generateWithOpenAI(reply) ==
  IF reply.kind # "json" THEN Threw
  ELSE Returned(IF reply.recommendation \in
                     {"approve", "approve_with_conditions", "reject", "review_manually"}
                THEN reply.recommendation ELSE "review_manually",
                IF reply.confidence \in {"low", "medium", "high"}
                THEN reply.confidence ELSE "low")

\* generateDecisionRecommendation without its try/catch.
generateDecisionRecommendationUncaught(provider, signals, reply) ==
  LET facts == extractDecisionFacts(signals)
  IN IF provider = "none" THEN Returned("review_manually", "low")
     ELSE IF provider = "openai" THEN generateWithOpenAI(reply)
     ELSE getFallbackRecommendation(facts)

\* generateDecisionRecommendation
generateDecisionRecommendation(provider, signals, reply) ==
  LET facts == extractDecisionFacts(signals)
  IN IF provider = "none" THEN Returned("review_manually", "low")
     ELSE IF provider = "openai"
       THEN IF generateWithOpenAI(reply).threw
            THEN getFallbackRecommendation(facts)
            ELSE generateWithOpenAI(reply)
     ELSE getFallbackRecommendation(facts)

\* ------------------------------------------------------ memberships service
AdminRoles == {"ADMIN", "OWNER"}

\* What a lookup that finds no membership gives.
NoMembership == [id |-> NoId, userId |-> NoId, clientId |-> NoId, role |-> "", status |-> ""]

\* findMembershipById: the row, or NoMembership.
findMembershipById(id) ==
  IF \E m \in memberships : m.id = id
  THEN CHOOSE m \in memberships : m.id = id
  ELSE NoMembership

\* assertCallerIsAdmin: the message it throws, "" when it returns.
assertCallerIsAdmin(userId, clientId) ==
  LET found == findMembershipByUserAndClient(userId, clientId)
      callerMembership == CHOOSE m \in found : TRUE
  IN IF found = {} THEN "Not a member of this organization"
     ELSE IF callerMembership.status # "ACTIVE" THEN "Your membership is not active"
     ELSE IF callerMembership.role \notin AdminRoles
       THEN "Only admins can perform this action"
     ELSE ""

\* changeMembershipRole's count of the client's other ACTIVE admins.
adminCount(clientId, membershipId) ==
  Cardinality({m \in memberships : /\ m.clientId = clientId /\ m.status = "ACTIVE"
                                   /\ m.role \in AdminRoles /\ m.id # membershipId})

\* The row createNotification writes for an approval or a rejection.
NewNotification(userId, type, membershipId) ==
  [userId |-> userId, type |-> type, membershipId |-> membershipId]

\* handleMembershipError's status of a message the service throws.
MembershipErrorCode(message) ==
  IF message = "Membership not found" THEN 404
  ELSE IF message \in {"Not a member of this organization", "Your membership is not active",
                       "Only admins can perform this action"} THEN 403
  ELSE 400

\* ------------------------------------------------------------- requests
\* The subject_company and deal parts of a creation body; the deal is
\* optional.
NoCompany == [externalId |-> "", name |-> "", domain |-> Undefined]
NoDeal == [given |-> FALSE, crm_deal_id |-> Undefined]

NoLink == [fromDecisionId |-> NoId, toDecisionId |-> NoId, relationshipType |-> ""]

Idle ==
  [pc |-> "idle", kind |-> "none", clientId |-> NoId, userId |-> NoId,
   decisionId |-> NoId, action |-> "", status |-> "", finalAction |-> Undefined,
   decidedAt |-> NoTime, overrideReason |-> Undefined, overrideUserId |-> NoId,
   company |-> NoCompany, deal |-> NoDeal, companyId |-> NoId, dealId |-> NoId,
   aiReply |-> "", recommendation |-> "", confidence |-> "",
   final_action |-> Undefined,
   link |-> NoLink, returned |-> "", fetched |-> "",
   membershipId |-> NoId, newRole |-> "", membership |-> NoMembership,
   awaited |-> NoId, app |-> NoId,
   code |-> 0, error |-> ""]

\* A request that has been answered: its locals are gone; what it asked
\* for and the answer stay.
Done(r, code, error) ==
  [Idle EXCEPT !.pc = "done", !.kind = r.kind, !.clientId = r.clientId,
               !.decisionId = r.decisionId, !.action = r.action,
               !.company = r.company, !.aiReply = r.aiReply,
               !.recommendation = r.recommendation, !.confidence = r.confidence,
               !.code = code, !.error = error]

InFlight(s) == reqs[s].pc \notin {"idle", "done"}

\* Slots whose open transaction holds the row lock of a decision.
Locking(decisionId) ==
  {s \in Slots : reqs[s].pc = "updated" /\ reqs[s].decisionId = decisionId}

DatabaseUnchanged ==
  UNCHANGED <<subjectCompanies, deals, decisions, contextSnapshots,
              humanOverrides, memberships, worker, apiKeyConfigured, aiProvider,
              decisionLinks, clients, notifications>>

\* The authenticate middleware on a new request: next() or 401.
Authenticate(s) ==
  /\ reqs[s].pc \in {"idle", "done"}
  /\ served < MaxRequests
  /\ served' = served + 1
  /\ \E auth \in AuthOutcomes :
       LET r == [Idle EXCEPT !.clientId = auth.clientId, !.userId = auth.userId]
       IN reqs' = [reqs EXCEPT ![s] =
                     IF auth.ok THEN [r EXCEPT !.pc = "authed"]
                     ELSE Done(r, 401, "Unauthorized")]
  /\ DatabaseUnchanged

\* A review request as the service sees it: of what the middleware leaves
\* in the context, reviewDecisionHandler reads the user id alone.
Arrive(s) ==
  /\ reqs[s].pc \in {"idle", "done"}
  /\ s # FirstSlot => InFlight(FirstSlot)
  /\ served < MaxRequests
  /\ served' = served + 1
  /\ \E userId \in Users \cup {NoId} :
       reqs' = [reqs EXCEPT ![s] = [Idle EXCEPT !.pc = "authed", !.userId = userId]]
  /\ DatabaseUnchanged

\* The handler without reviewDecisionSchema.parse: whatever action the body
\* carries reaches processDecisionReview.
ReviewDecisionHandlerUnvalidated(s, decisionId, body) ==
  /\ reqs[s].pc = "authed"
  /\ LET r == [reqs[s] EXCEPT !.kind = "review", !.decisionId = decisionId,
                              !.action = body.action]
         existingDecision == findDecisionById(decisionId, NoId)
         mapped == MapAction(body.action, decisions[existingDecision].recommendedAction,
                             body.final_action)
     IN reqs' = [reqs EXCEPT ![s] =
          IF existingDecision = NoId
            THEN Done(r, 404, "Decision not found")
          ELSE IF ~mapped.ok
            THEN Done(r, 500, "Invalid action")
          ELSE [r EXCEPT !.pc = "mapped", !.status = mapped.status,
                         !.finalAction = mapped.finalAction,
                         !.decidedAt = Now,
                         !.overrideReason = body.note,
                         !.final_action = body.final_action,
                         !.overrideUserId =
                            IF body.action = "override" THEN r.userId ELSE NoId]]
  /\ UNCHANGED served
  /\ DatabaseUnchanged

\* reviewDecisionHandler and processDecisionReview up to the call of
\* updateDecisionStatus.
ReviewDecisionHandler(s, decisionId, body) ==
  /\ reqs[s].pc = "authed"
  /\ LET r == [reqs[s] EXCEPT !.kind = "review", !.decisionId = decisionId,
                              !.action = body.action]
         existingDecision == findDecisionById(decisionId, NoId)
         mapped == MapAction(body.action, decisions[existingDecision].recommendedAction,
                             body.final_action)
     IN reqs' = [reqs EXCEPT ![s] =
          IF body.action \notin reviewDecisionSchema
            THEN Done(r, 400, "Validation Error")
          ELSE IF existingDecision = NoId
            THEN Done(r, 404, "Decision not found")
          ELSE IF ~mapped.ok
            THEN Done(r, 500, "Invalid action")
          ELSE [r EXCEPT !.pc = "mapped", !.status = mapped.status,
                         !.finalAction = mapped.finalAction,
                         !.decidedAt = Now,
                         !.overrideReason = body.note,
                         !.final_action = body.final_action,
                         !.overrideUserId =
                            IF body.action = "override" THEN r.userId ELSE NoId]]
  /\ UNCHANGED served
  /\ DatabaseUnchanged

\* The decision update issued on the plain client instead of the
\* transaction's: it is committed on its own, before the override insert.
TxUpdateUnwrapped(s) ==
  /\ reqs[s].pc = "mapped"
  /\ Locking(reqs[s].decisionId) = {}
  /\ IF reqs[s].userId \in Users
     THEN /\ decisions' = [decisions EXCEPT ![reqs[s].decisionId] =
                             UpdatedDecision(@, reqs[s])]
          /\ reqs' = [reqs EXCEPT ![s].pc = "updated"]
     ELSE /\ decisions' = decisions
          /\ reqs' = [reqs EXCEPT ![s] = Done(reqs[s], 409, "P2003")]
  /\ UNCHANGED <<served, subjectCompanies, deals, contextSnapshots,
                 humanOverrides, memberships, worker, apiKeyConfigured, aiProvider,
                 decisionLinks, clients, notifications>>

\* updateDecisionStatus, tx.decision.update: takes the row lock; decided_by
\* references users, so an id that names no user aborts the transaction.
TxUpdate(s) ==
  /\ reqs[s].pc = "mapped"
  /\ Locking(reqs[s].decisionId) = {}
  /\ reqs' = [reqs EXCEPT ![s] =
                IF reqs[s].userId \in Users THEN [reqs[s] EXCEPT !.pc = "updated"]
                ELSE Done(reqs[s], 409, "P2003")]
  /\ UNCHANGED served
  /\ DatabaseUnchanged

\* updateDecisionStatus, the rest of the transaction: the conditional
\* tx.decisionHumanOverride.create, then the commit, which makes the
\* transaction's writes visible together.
TxCommit(s) ==
  /\ reqs[s].pc = "updated"
  /\ decisions' = [decisions EXCEPT ![reqs[s].decisionId] = UpdatedDecision(@, reqs[s])]
  /\ humanOverrides' =
       IF RecordsOverride(reqs[s].status, reqs[s].overrideUserId, reqs[s].overrideReason)
       THEN Append(humanOverrides, NewOverride(reqs[s]))
       ELSE humanOverrides
  /\ reqs' = [reqs EXCEPT ![s].pc = "committed"]
  /\ UNCHANGED <<served, subjectCompanies, deals, contextSnapshots,
                 memberships, worker, apiKeyConfigured, aiProvider,
                 decisionLinks, clients, notifications>>

\* The database fails inside the transaction: it rolls back and the error
\* reaches the error handler.
TxFail(s) ==
  /\ reqs[s].pc = "updated"
  /\ reqs' = [reqs EXCEPT ![s] = Done(reqs[s], 500, "Database Error")]
  /\ UNCHANGED served
  /\ DatabaseUnchanged

\* processDecisionReview after the transaction: fetch again and answer.
ReviewRespond(s) ==
  /\ reqs[s].pc = "committed"
  /\ reqs' = [reqs EXCEPT ![s] =
                IF findDecisionById(reqs[s].decisionId, NoId) = NoId
                THEN Done(reqs[s], 500, "Failed to fetch updated decision")
                ELSE Done(reqs[s], 200, "")]
  /\ UNCHANGED served
  /\ DatabaseUnchanged

\* getDecisionHandler
GetDecisionHandler(s, decisionId) ==
  /\ reqs[s].pc = "authed"
  /\ LET r == [reqs[s] EXCEPT !.kind = "get", !.decisionId = decisionId]
         decision == getDecisionById(decisionId, r.clientId)
     IN reqs' = [reqs EXCEPT ![s] =
          IF decision = NoId THEN Done(r, 404, "Decision not found")
          ELSE Done(r, 200, "")]
  /\ UNCHANGED served
  /\ DatabaseUnchanged

\* The data processDecisionCreation hands to createDecision.
DecisionData(clientId, companyId, dealId, recommendation) ==
  [clientId |-> clientId, subjectCompanyId |-> companyId,
   dealId |-> dealId, decisionType |-> "DISCOUNT",
   recommendedAction |-> recommendation,
   signals |-> "signals", agentRationale |-> "rationale"]

\* createDecisionHandler: a creation request enters processDecisionCreation.
CreateArrive(s, clientId, companyData, dealData) ==
  /\ reqs[s].pc \in {"idle", "done"}
  /\ s # FirstSlot => InFlight(FirstSlot)
  /\ served < MaxRequests
  /\ served' = served + 1
  /\ reqs' = [reqs EXCEPT ![s] =
                [Idle EXCEPT !.pc = "company", !.kind = "create",
                             !.clientId = clientId, !.company = companyData,
                             !.deal = dealData]]
  /\ DatabaseUnchanged

\* subject_companies_client_id_fkey: the client of a company row is a row
\* of clients.
ClientExists(clientId) == clientId \in DOMAIN clients

\* createDecisionHandler behind the middleware: the client is the one the
\* middleware resolved, or else the body's client_id.
CreateDecisionHandler(s, client_id, companyData, dealData) ==
  /\ reqs[s].pc = "authed"
  /\ reqs' = [reqs EXCEPT ![s] =
                [reqs[s] EXCEPT !.pc = "company", !.kind = "create",
                                !.clientId = IF reqs[s].clientId # NoId
                                             THEN reqs[s].clientId ELSE client_id,
                                !.company = companyData, !.deal = dealData]]
  /\ UNCHANGED served
  /\ DatabaseUnchanged

\* findOrCreateSubjectCompany where the query engine sends the upsert as one
\* INSERT ... ON CONFLICT DO UPDATE statement; the foreign key to clients
\* refuses a row of a client that is not there.
UpsertNative(s) ==
  /\ reqs[s].pc = "company"
  /\ IF ClientExists(reqs[s].clientId)
     THEN /\ subjectCompanies' =
               UpsertCompany(subjectCompanies, reqs[s].clientId, reqs[s].company)
          /\ reqs' = [reqs EXCEPT ![s].pc = "deal",
                        ![s].companyId = CompanyByKey(subjectCompanies', reqs[s].clientId,
                                                      reqs[s].company.externalId)]
     ELSE /\ subjectCompanies' = subjectCompanies
          /\ reqs' = [reqs EXCEPT ![s] = Done(reqs[s], 409, "P2003")]
  /\ UNCHANGED <<served, deals, decisions, contextSnapshots, humanOverrides,
                 memberships, worker, apiKeyConfigured, aiProvider,
                 decisionLinks, clients, notifications>>

\* findOrCreateSubjectCompany where the query engine runs the upsert as a
\* read followed by a write: the read.
UpsertSelect(s) ==
  /\ reqs[s].pc = "company"
  /\ reqs' = [reqs EXCEPT ![s].pc = "upserting",
                          ![s].companyId = CompanyByKey(subjectCompanies, reqs[s].clientId,
                                                        reqs[s].company.externalId)]
  /\ UNCHANGED served
  /\ DatabaseUnchanged

\* The write without the (tenant_id, external_id) unique index.
UpsertWriteUnchecked(s) ==
  /\ reqs[s].pc = "upserting"
  /\ IF reqs[s].companyId # NoId
     THEN /\ subjectCompanies' = [subjectCompanies EXCEPT ![reqs[s].companyId] =
                                    UpdateCompany(@, reqs[s].company)]
          /\ reqs' = [reqs EXCEPT ![s].pc = "deal"]
     ELSE /\ subjectCompanies' = Append(subjectCompanies,
                                        NewCompany(reqs[s].clientId, reqs[s].company))
          /\ reqs' = [reqs EXCEPT ![s].pc = "deal",
                                  ![s].companyId = Len(subjectCompanies) + 1]
  /\ UNCHANGED <<served, deals, decisions, contextSnapshots, humanOverrides,
                 memberships, worker, apiKeyConfigured, aiProvider,
                 decisionLinks, clients, notifications>>

\* The write of that upsert: an update of the row read, or an insert, which
\* the unique index (tenant_id, external_id) refuses with P2002 when a
\* concurrent request has inserted the key since the read, and the foreign
\* key to clients with P2003 when the client is not there; nothing catches
\* the error, and errorHandler answers 409.
UpsertWrite(s) ==
  /\ reqs[s].pc = "upserting"
  /\ IF reqs[s].companyId # NoId
     THEN /\ subjectCompanies' = [subjectCompanies EXCEPT ![reqs[s].companyId] =
                                    UpdateCompany(@, reqs[s].company)]
          /\ reqs' = [reqs EXCEPT ![s].pc = "deal"]
     ELSE IF CompanyByKey(subjectCompanies, reqs[s].clientId,
                          reqs[s].company.externalId) # NoId
     THEN /\ subjectCompanies' = subjectCompanies
          /\ reqs' = [reqs EXCEPT ![s] = Done(reqs[s], 409, "P2002")]
     ELSE IF ~ClientExists(reqs[s].clientId)
     THEN /\ subjectCompanies' = subjectCompanies
          /\ reqs' = [reqs EXCEPT ![s] = Done(reqs[s], 409, "P2003")]
     ELSE /\ subjectCompanies' = Append(subjectCompanies,
                                        NewCompany(reqs[s].clientId, reqs[s].company))
          /\ reqs' = [reqs EXCEPT ![s].pc = "deal",
                                  ![s].companyId = Len(subjectCompanies) + 1]
  /\ UNCHANGED <<served, deals, decisions, contextSnapshots, humanOverrides,
                 memberships, worker, apiKeyConfigured, aiProvider,
                 decisionLinks, clients, notifications>>

\* A lookup that never finds the deal there is.
FindDealNever(s) ==
  /\ reqs[s].pc = "deal"
  /\ reqs' = [reqs EXCEPT ![s].pc = IF reqs[s].deal.given THEN "dealing" ELSE "decision"]
  /\ UNCHANGED served
  /\ DatabaseUnchanged

\* processDecisionCreation step 2, up to the lookup of findOrCreateDeal: no
\* deal in the body gives null; a deal with a CRM id that the company has
\* is returned; any other is left to be created.
FindDeal(s) ==
  /\ reqs[s].pc = "deal"
  /\ LET existing == IF Truthy(reqs[s].deal.crm_deal_id)
                     THEN DealByCrmId(reqs[s].companyId, reqs[s].deal.crm_deal_id)
                     ELSE NoId
     IN reqs' = [reqs EXCEPT ![s] =
          IF ~reqs[s].deal.given THEN [reqs[s] EXCEPT !.pc = "decision"]
          ELSE IF existing # NoId
            THEN [reqs[s] EXCEPT !.pc = "decision", !.dealId = existing]
          ELSE [reqs[s] EXCEPT !.pc = "dealing"]]
  /\ UNCHANGED served
  /\ DatabaseUnchanged

\* findOrCreateDeal's prisma.deal.create.
CreateDeal(s) ==
  /\ reqs[s].pc = "dealing"
  /\ deals' = Append(deals, NewDeal(reqs[s].companyId, reqs[s].deal))
  /\ reqs' = [reqs EXCEPT ![s].pc = "decision", ![s].dealId = Len(deals) + 1]
  /\ UNCHANGED <<served, subjectCompanies, decisions, contextSnapshots,
                 humanOverrides, memberships, worker, apiKeyConfigured, aiProvider,
                 decisionLinks, clients, notifications>>

\* createDecision writing the decision row alone, its snapshot left out.
PersistDecisionBare(s, recommendation) ==
  /\ reqs[s].pc = "decision"
  /\ LET data == DecisionData(reqs[s].clientId, reqs[s].companyId, reqs[s].dealId,
                              recommendation)
     IN decisions' = Append(decisions, NewDecision(data))
  /\ reqs' = [reqs EXCEPT ![s].pc = "created", ![s].decisionId = Len(decisions) + 1]
  /\ UNCHANGED <<served, subjectCompanies, deals, contextSnapshots, humanOverrides,
                 memberships, worker, apiKeyConfigured, aiProvider,
                 decisionLinks, clients, notifications>>

\* processDecisionCreation steps 3 to 6: context and recommendation, which
\* write nothing, then createDecision, one statement for the decision and
\* its snapshot.
PersistDecision(s, recommendation) ==
  /\ reqs[s].pc = "decision"
  /\ LET data == DecisionData(reqs[s].clientId, reqs[s].companyId, reqs[s].dealId,
                              recommendation)
         snapshot == CreateSnapshot(contextSnapshots,
                                    NewSnapshot(Len(decisions) + 1, data))
     IN IF snapshot.ok
        THEN /\ decisions' = Append(decisions, NewDecision(data))
             /\ contextSnapshots' = snapshot.table
             /\ reqs' = [reqs EXCEPT ![s].pc = "created",
                                     ![s].decisionId = Len(decisions) + 1]
        ELSE /\ UNCHANGED <<decisions, contextSnapshots>>
             /\ reqs' = [reqs EXCEPT ![s] = Done(reqs[s], 409, "P2002")]
  /\ UNCHANGED <<served, subjectCompanies, deals, humanOverrides, memberships,
                 worker, apiKeyConfigured, aiProvider,
                 decisionLinks, clients, notifications>>

\* The database call the request awaits fails: the statement writes nothing,
\* the error leaves processDecisionCreation and errorHandler answers 500.
CreateFail(s) ==
  /\ \/ reqs[s].pc \in {"company", "upserting", "dealing", "decision"}
     \/ reqs[s].pc = "deal" /\ Truthy(reqs[s].deal.crm_deal_id)
  /\ reqs' = [reqs EXCEPT ![s] = Done(reqs[s], 500, "Database Error")]
  /\ UNCHANGED served
  /\ DatabaseUnchanged

\* processDecisionCreation steps 3 to 5: gatherContext, then
\* generateDecisionRecommendation; an error either throws leaves
\* processDecisionCreation and is answered 500.
Recommend(s, fetched, reply) ==
  /\ reqs[s].pc = "decision" /\ reqs[s].recommendation = ""
  /\ LET signals == gatherContext(reqs[s].company, fetched)
         recommendation == generateDecisionRecommendation(aiProvider, signals, reply)
     IN reqs' = [reqs EXCEPT ![s] =
          IF signals.threw THEN Done(reqs[s], 500, "Context Error")
          ELSE IF recommendation.threw
            THEN Done([reqs[s] EXCEPT !.aiReply = reply.kind], 500, "Recommender Error")
          ELSE [reqs[s] EXCEPT !.aiReply = reply.kind,
                               !.recommendation = recommendation.recommendation,
                               !.confidence = recommendation.confidence]]
  /\ UNCHANGED served
  /\ DatabaseUnchanged

\* processDecisionCreation step 3, gatherContext: with a domain it calls
\* gatherWebsiteSignals, which arms a 5 s abort timer and awaits fetch.
GatherStart(s) ==
  /\ reqs[s].pc = "decision" /\ reqs[s].recommendation = ""
  /\ reqs' = [reqs EXCEPT ![s] =
                IF Truthy(reqs[s].company.domain)
                THEN [reqs[s] EXCEPT !.pc = "fetching"]
                ELSE [reqs[s] EXCEPT !.pc = "asking", !.fetched = "skipped"]]
  /\ UNCHANGED served
  /\ DatabaseUnchanged

\* The website answers, or the connection fails: on a response the timer is
\* cleared and, when it is ok, response.text() awaited.
FetchSettles(s, fetched) ==
  /\ reqs[s].pc = "fetching"
  /\ fetched \in Fetches \ {"timeout"}
  /\ reqs' = [reqs EXCEPT ![s] =
                IF fetched = "ok" THEN [reqs[s] EXCEPT !.pc = "reading"]
                ELSE [reqs[s] EXCEPT !.pc = "asking", !.fetched = fetched]]
  /\ UNCHANGED served
  /\ DatabaseUnchanged

\* The 5 s timer fires while fetch is pending: controller.abort(), the
\* AbortError is caught.
FetchAbort(s) ==
  /\ reqs[s].pc = "fetching"
  /\ reqs' = [reqs EXCEPT ![s].pc = "asking", ![s].fetched = "timeout"]
  /\ UNCHANGED served
  /\ DatabaseUnchanged

\* response.text() settles: the body, or an error that is caught.
BodyArrives(s, fetched) ==
  /\ reqs[s].pc = "reading"
  /\ fetched \in {"ok", "network error"}
  /\ reqs' = [reqs EXCEPT ![s].pc = "asking", ![s].fetched = fetched]
  /\ UNCHANGED served
  /\ DatabaseUnchanged

\* processDecisionCreation step 4, generateDecisionRecommendation: without
\* an OpenAI key it returns at once, with one it awaits
\* openai.chat.completions.create.
AskProvider(s) ==
  /\ reqs[s].pc = "asking"
  /\ LET signals == gatherContext(reqs[s].company, reqs[s].fetched)
         recommendation ==
           generateDecisionRecommendation(aiProvider, signals, CHOOSE r \in ProviderReplies : TRUE)
     IN reqs' = [reqs EXCEPT ![s] =
          IF aiProvider = "openai" THEN [reqs[s] EXCEPT !.pc = "awaiting"]
          ELSE [reqs[s] EXCEPT !.pc = "decision",
                               !.recommendation = recommendation.recommendation,
                               !.confidence = recommendation.confidence]]
  /\ UNCHANGED served
  /\ DatabaseUnchanged

\* The provider's call settles: an answer, or an error the SDK throws.
ProviderSettles(s, reply) ==
  /\ reqs[s].pc = "awaiting"
  /\ LET signals == gatherContext(reqs[s].company, reqs[s].fetched)
         recommendation == generateDecisionRecommendation(aiProvider, signals, reply)
     IN reqs' = [reqs EXCEPT ![s] =
          IF recommendation.threw
            THEN Done([reqs[s] EXCEPT !.aiReply = reply.kind], 500, "Recommender Error")
          ELSE [reqs[s] EXCEPT !.pc = "decision", !.aiReply = reply.kind,
                               !.recommendation = recommendation.recommendation,
                               !.confidence = recommendation.confidence]]
  /\ UNCHANGED served
  /\ DatabaseUnchanged

\* processDecisionCreation step 6 with the recommendation step 4 returned.
PersistRecommended(s) ==
  /\ reqs[s].recommendation # ""
  /\ PersistDecision(s, reqs[s].recommendation)

\* processDecisionCreation step 7 and the handler's 201.
CreateRespond(s) ==
  /\ reqs[s].pc = "created"
  /\ reqs' = [reqs EXCEPT ![s] =
                IF findDecisionById(reqs[s].decisionId, NoId) = NoId
                THEN Done(reqs[s], 500, "Failed to fetch created decision")
                ELSE Done(reqs[s], 201, "")]
  /\ UNCHANGED served
  /\ DatabaseUnchanged

\* A caller enters linkDecisions.
LinkArrive(s, fromDecisionId, toDecisionId, relationshipType) ==
  /\ reqs[s].pc \in {"idle", "done"}
  /\ s # FirstSlot => InFlight(FirstSlot)
  /\ served < MaxRequests
  /\ served' = served + 1
  /\ reqs' = [reqs EXCEPT ![s] =
                [Idle EXCEPT !.pc = "linking", !.kind = "link",
                             !.link = NewLink(fromDecisionId, toDecisionId, relationshipType)]]
  /\ DatabaseUnchanged

\* linkDecisions without its try/catch: the insert's error is the caller's.
LinkCreateRethrows(s) ==
  /\ reqs[s].pc = "linking"
  /\ LET r == CreateLink(decisionLinks, decisions, reqs[s].link)
     IN /\ decisionLinks' = r.table
        /\ reqs' = [reqs EXCEPT ![s] =
                      [Done(reqs[s], 0, r.error) EXCEPT
                         !.link = reqs[s].link,
                         !.returned = IF r.ok THEN "row" ELSE ""]]
  /\ UNCHANGED <<served, subjectCompanies, deals, decisions, contextSnapshots,
                 humanOverrides, memberships, clients, notifications,
                 worker, apiKeyConfigured, aiProvider>>

\* linkDecisions: prisma.decisionLink.create, whose row is returned; any
\* error it throws is caught and null returned.
LinkCreate(s) ==
  /\ reqs[s].pc = "linking"
  /\ LET r == CreateLink(decisionLinks, decisions, reqs[s].link)
     IN /\ decisionLinks' = r.table
        /\ reqs' = [reqs EXCEPT ![s] =
                      [Done(reqs[s], 0, "") EXCEPT
                         !.link = reqs[s].link,
                         !.returned = IF r.ok THEN "row" ELSE "null"]]
  /\ UNCHANGED <<served, subjectCompanies, deals, decisions, contextSnapshots,
                 humanOverrides, memberships, clients, notifications,
                 worker, apiKeyConfigured, aiProvider>>

\* A membership request that has been answered.
MemberDone(r, code, error) ==
  [Done(r, code, error) EXCEPT !.userId = r.userId, !.membershipId = r.membershipId,
                               !.newRole = r.newRole]

\* approveMembership, rejectMembership, changeMembershipRole or
\* removeMembership is called for a user.
MemberArrive(s, kind, membershipId, actingUserId, newRole) ==
  /\ reqs[s].pc \in {"idle", "done"}
  /\ s # FirstSlot => InFlight(FirstSlot)
  /\ served < MaxRequests
  /\ served' = served + 1
  /\ reqs' = [reqs EXCEPT ![s] =
                [Idle EXCEPT !.pc = "finding", !.kind = kind, !.userId = actingUserId,
                             !.membershipId = membershipId,
                             !.newRole = IF kind = "role" THEN newRole ELSE ""]]
  /\ DatabaseUnchanged

\* The first await of the four: findMembershipById and the checks on the
\* row read.
FindMembership(s) ==
  /\ reqs[s].pc = "finding"
  /\ LET membership == findMembershipById(reqs[s].membershipId)
         r == [reqs[s] EXCEPT !.membership = membership]
     IN reqs' = [reqs EXCEPT ![s] =
          IF membership = NoMembership
            THEN MemberDone(r, 404, "Membership not found")
          ELSE IF r.kind = "approve" /\ membership.status # "PENDING"
            THEN MemberDone(r, 400, "Only PENDING memberships can be approved")
          ELSE IF r.kind = "reject" /\ membership.status # "PENDING"
            THEN MemberDone(r, 400, "Only PENDING memberships can be rejected")
          ELSE IF r.kind = "remove" /\ membership.userId = r.userId
            THEN [r EXCEPT !.pc = "applying"]
          ELSE [r EXCEPT !.pc = "asserting"]]
  /\ UNCHANGED served
  /\ DatabaseUnchanged

\* The second await: assertCallerIsAdmin for the client of the row read.
AssertCallerIsAdmin(s) ==
  /\ reqs[s].pc = "asserting"
  /\ LET message == assertCallerIsAdmin(reqs[s].userId, reqs[s].membership.clientId)
     IN reqs' = [reqs EXCEPT ![s] =
          IF message # ""
            THEN MemberDone(reqs[s], MembershipErrorCode(message), message)
          ELSE IF /\ reqs[s].kind = "role"
                  /\ reqs[s].membership.role \in AdminRoles
                  /\ reqs[s].newRole \notin AdminRoles
            THEN [reqs[s] EXCEPT !.pc = "counting"]
          ELSE [reqs[s] EXCEPT !.pc = "applying"]]
  /\ UNCHANGED served
  /\ DatabaseUnchanged

\* changeMembershipRole demoting an admin: findMembershipsByClient and the
\* count of the other admins.
CountAdmins(s) ==
  /\ reqs[s].pc = "counting"
  /\ reqs' = [reqs EXCEPT ![s] =
                IF adminCount(reqs[s].membership.clientId, reqs[s].membershipId) = 0
                THEN MemberDone(reqs[s], 400,
                                "Cannot demote the last admin of this organization")
                ELSE [reqs[s] EXCEPT !.pc = "applying"]]
  /\ UNCHANGED served
  /\ DatabaseUnchanged

\* The write of the four: the transaction of updateMembershipStatus with
\* createNotification, updateMembershipRole, or deleteMembership; each
\* names the row by id alone and throws P2025 when it is gone.
ApplyMembership(s) ==
  /\ reqs[s].pc = "applying"
  /\ LET r == reqs[s]
         row == findMembershipById(r.membershipId)
         others == memberships \ {row}
         status == IF r.kind = "approve" THEN "ACTIVE" ELSE "REJECTED"
         type == IF r.kind = "approve" THEN "MEMBERSHIP_APPROVED" ELSE "MEMBERSHIP_REJECTED"
     IN IF row = NoMembership
        THEN /\ reqs' = [reqs EXCEPT ![s] = MemberDone(r, 404, "P2025")]
             /\ UNCHANGED <<memberships, notifications>>
        ELSE /\ reqs' = [reqs EXCEPT ![s] = MemberDone(r, 200, "")]
             /\ memberships' =
                  IF r.kind \in {"approve", "reject"}
                    THEN others \cup {[row EXCEPT !.status = status]}
                  ELSE IF r.kind = "role"
                    THEN others \cup {[row EXCEPT !.role = r.newRole]}
                  ELSE others
             /\ notifications' =
                  IF r.kind \in {"approve", "reject"}
                  THEN Append(notifications,
                              NewNotification(r.membership.userId, type, r.membershipId))
                  ELSE notifications
  /\ UNCHANGED <<served, subjectCompanies, deals, decisions, contextSnapshots,
                 humanOverrides, decisionLinks, clients, worker, apiKeyConfigured, aiProvider>>

\* What is left unchanged by a step of worker.ts, which has no query.
TablesUnchanged ==
  UNCHANGED <<subjectCompanies, deals, decisions, contextSnapshots, humanOverrides,
              memberships, decisionLinks, clients, notifications,
              apiKeyConfigured, aiProvider>>

\* A fetch that starts initializeApp whether or not a start-up is there.
WorkerFetchAlwaysInits(s) ==
  /\ reqs[s].pc \in {"idle", "done"}
  /\ served < MaxRequests
  /\ served' = served + 1
  /\ LET k == Len(worker.inits) + 1
     IN /\ worker' = [worker EXCEPT !.appReady = k,
                                    !.promises = Append(@, "pending"),
                                    !.inits = Append(@, "running")]
        /\ reqs' = [reqs EXCEPT ![s] =
                      [Idle EXCEPT !.pc = "awaiting", !.kind = "fetch", !.awaited = k]]
  /\ TablesUnchanged

\* fetch up to `await appReady`: with appReady null it starts initializeApp
\* under withTimeout and leaves the promise in appReady; it awaits the
\* promise appReady holds.
WorkerFetch(s) ==
  /\ reqs[s].pc \in {"idle", "done"}
  /\ served < MaxRequests
  /\ served' = served + 1
  /\ LET k == Len(worker.inits) + 1
     IN IF worker.appReady = NoId
        THEN /\ worker' = [worker EXCEPT !.appReady = k,
                                         !.promises = Append(@, "pending"),
                                         !.inits = Append(@, "running")]
             /\ reqs' = [reqs EXCEPT ![s] =
                           [Idle EXCEPT !.pc = "awaiting", !.kind = "fetch", !.awaited = k]]
        ELSE /\ worker' = worker
             /\ reqs' = [reqs EXCEPT ![s] =
                           [Idle EXCEPT !.pc = "awaiting", !.kind = "fetch",
                                        !.awaited = worker.appReady]]
  /\ TablesUnchanged

\* initializeApp returns: fastifyApp is its app; withTimeout's race, if not
\* settled yet, resolves.
InitSucceeds(k) ==
  /\ k \in 1..Len(worker.inits) /\ worker.inits[k] = "running"
  /\ worker' = [worker EXCEPT !.inits[k] = "done", !.fastifyApp = k,
                              !.promises[k] = IF @ = "pending" THEN "resolved" ELSE @]
  /\ UNCHANGED <<reqs, served>>
  /\ TablesUnchanged

\* initializeApp throws: the race, if not settled yet, rejects and the catch
\* handler sets appReady to null.
InitFails(k) ==
  /\ k \in 1..Len(worker.inits) /\ worker.inits[k] = "running"
  /\ worker' = IF worker.promises[k] = "pending"
               THEN [worker EXCEPT !.inits[k] = "failed", !.promises[k] = "rejected",
                                   !.appReady = NoId]
               ELSE [worker EXCEPT !.inits[k] = "failed"]
  /\ UNCHANGED <<reqs, served>>
  /\ TablesUnchanged

\* withTimeout's 25 s timer fires first: the race rejects and the catch
\* handler sets appReady to null; initializeApp itself goes on.
InitTimeout(k) ==
  /\ k \in 1..Len(worker.inits) /\ worker.inits[k] = "running"
  /\ worker.promises[k] = "pending"
  /\ worker' = [worker EXCEPT !.promises[k] = "rejected", !.appReady = NoId]
  /\ UNCHANGED <<reqs, served>>
  /\ TablesUnchanged

\* `await appReady` settles: on a rejection fetch throws, else it goes on to
\* fastifyApp!.inject, which throws on null.
WorkerDispatch(s) ==
  /\ reqs[s].pc = "awaiting"
  /\ worker.promises[reqs[s].awaited] # "pending"
  /\ LET r == [Done(reqs[s], 0, "") EXCEPT !.awaited = reqs[s].awaited]
     IN reqs' = [reqs EXCEPT ![s] =
          IF worker.promises[reqs[s].awaited] = "rejected"
            THEN [r EXCEPT !.code = 500, !.error = "initializeApp"]
          ELSE IF worker.fastifyApp = NoId
            THEN [r EXCEPT !.code = 500, !.error = "TypeError"]
          ELSE [r EXCEPT !.code = 200, !.app = worker.fastifyApp]]
  /\ UNCHANGED <<worker, served>>
  /\ TablesUnchanged

\* processDecisionCreation run to its end with nothing in between: the
\* company upsert, then the decision with its snapshot.
DecisionCreated(clientId, companyData, recommendation) ==
  /\ served < MaxRequests
  /\ served' = served + 1
  /\ subjectCompanies' = UpsertCompany(subjectCompanies, clientId, companyData)
  /\ LET company == CompanyByKey(subjectCompanies', clientId, companyData.externalId)
         data == DecisionData(clientId, company, NoId, recommendation)
     IN /\ decisions' = Append(decisions, NewDecision(data))
        /\ contextSnapshots' =
             CreateSnapshot(contextSnapshots, NewSnapshot(Len(decisions) + 1, data)).table
  /\ UNCHANGED <<deals, humanOverrides, memberships, worker, apiKeyConfigured, aiProvider,
                 decisionLinks, clients, notifications, reqs>>

Acme == [externalId |-> "acme-1", name |-> "Acme", domain |-> Undefined]

\* ------------------------------------------------------- specifications
InitMemberships ==
  { [id |-> 1, userId |-> 1, clientId |-> 1, role |-> "ADMIN", status |-> "ACTIVE"],
    [id |-> 2, userId |-> 1, clientId |-> 2, role |-> "VIEWER", status |-> "PENDING"],
    [id |-> 3, userId |-> 2, clientId |-> 1, role |-> "APPROVER", status |-> "ACTIVE"],
    [id |-> 4, userId |-> 2, clientId |-> 2, role |-> "ADMIN", status |-> "ACTIVE"] }

\* worker.ts as loaded: no start-up yet. promises[k] is the promise the k-th
\* start-up left in appReady, inits[k] its initializeApp call.
InitWorker == [appReady |-> NoId, fastifyApp |-> NoId, promises |-> <<>>, inits |-> <<>>]

\* The clients there are: client 2 has been deactivated.
InitClients ==
  [c \in Clients |-> [active |-> c = 1]]

InitDatabase ==
  /\ subjectCompanies = <<>>
  /\ deals = <<>>
  /\ decisions = <<>>
  /\ contextSnapshots = <<>>
  /\ humanOverrides = <<>>
  /\ memberships = InitMemberships
  /\ decisionLinks = <<>>
  /\ clients = InitClients
  /\ notifications = <<>>

\* Concurrent reviews of decisions, as the review service runs them.
Init ==
  /\ InitDatabase
  /\ apiKeyConfigured = TRUE
  /\ aiProvider = "openai"
  /\ worker = InitWorker
  /\ reqs = [s \in Slots |-> Idle]
  /\ served = 0

\* Ids a caller can name: those of the decisions there are and the next,
\* which names none.
DecisionIds == 1..(Len(decisions) + 1)

\* Review bodies callers send.
ReviewBodies ==
  [action : BodyActions, note : Notes, final_action : FinalActionTexts]

Review(s) ==
  \/ Arrive(s)
  \/ \E d \in DecisionIds, body \in ReviewBodies : ReviewDecisionHandler(s, d, body)
  \/ TxUpdate(s)
  \/ TxCommit(s)
  \/ TxFail(s)
  \/ ReviewRespond(s)

Next ==
  \/ \E rec \in Recommendations : DecisionCreated(1, Acme, rec)
  \/ \E s \in Slots : Review(s)

Spec == Init /\ [][Next]_vars

\* Requests through the middleware and the decision handlers, one at a time.
InitAccess ==
  /\ InitDatabase
  /\ apiKeyConfigured \in BOOLEAN
  /\ aiProvider = "openai"
  /\ worker = InitWorker
  /\ reqs = [s \in Slots |-> Idle]
  /\ served = 0

\* The review bodies that tell a scoped review from an unscoped one.
AccessBodies ==
  [action : {"approve", "override"}, note : {"too risky"}, final_action : {Undefined}]

NextAccess ==
  \/ \E c \in Clients : DecisionCreated(c, Acme, "review_manually")
  \/ Authenticate(FirstSlot)
  \/ \E d \in DecisionIds : GetDecisionHandler(FirstSlot, d)
  \/ \E d \in DecisionIds, body \in AccessBodies :
        ReviewDecisionHandler(FirstSlot, d, body)
  \/ TxUpdate(FirstSlot)
  \/ TxCommit(FirstSlot)
  \/ TxFail(FirstSlot)
  \/ ReviewRespond(FirstSlot)

SpecAccess == InitAccess /\ [][NextAccess]_vars

\* Concurrent decision creations, step by step.
CompanyBodies == {Acme, [Acme EXCEPT !.name = "Acme Inc", !.domain = "acme.io"]}
DealBodies ==
  {NoDeal, [given |-> TRUE, crm_deal_id |-> "crm-7"],
   [given |-> TRUE, crm_deal_id |-> Undefined]}

Create(s) ==
  \/ \E companyData \in CompanyBodies, dealData \in DealBodies :
        CreateArrive(s, 1, companyData, dealData)
  \/ UpsertNative(s)
  \/ UpsertSelect(s)
  \/ UpsertWrite(s)
  \/ FindDeal(s)
  \/ CreateDeal(s)
  \/ PersistDecision(s, "review_manually")
  \/ CreateFail(s)
  \/ CreateRespond(s)

NextCreate == \E s \in Slots : Create(s)

SpecCreate == Init /\ [][NextCreate]_vars

\* Creations with their context gathering and recommendation, one at a
\* time, under each provider configuration.
InitRecommend ==
  /\ InitDatabase
  /\ apiKeyConfigured = TRUE
  /\ aiProvider \in AiProviders
  /\ worker = InitWorker
  /\ reqs = [s \in Slots |-> Idle]
  /\ served = 0

NextRecommend ==
  \/ \E companyData \in CompanyBodies, dealData \in DealBodies :
        CreateArrive(FirstSlot, 1, companyData, dealData)
  \/ UpsertNative(FirstSlot)
  \/ FindDeal(FirstSlot)
  \/ CreateDeal(FirstSlot)
  \/ \E fetched \in Fetches, reply \in ProviderReplies :
        Recommend(FirstSlot, fetched, reply)
  \/ PersistRecommended(FirstSlot)
  \/ CreateFail(FirstSlot)
  \/ CreateRespond(FirstSlot)

SpecRecommend == InitRecommend /\ [][NextRecommend]_vars

\* Links between decisions, two callers at a time. Two decisions of one
\* company are there from the start, as two creations leave them.
InitLink ==
  LET companies == UpsertCompany(<<>>, 1, Acme)
      data == DecisionData(1, CompanyByKey(companies, 1, Acme.externalId), NoId,
                           "review_manually")
  IN /\ subjectCompanies = companies
     /\ deals = <<>>
     /\ decisions = <<NewDecision(data), NewDecision(data)>>
     /\ contextSnapshots = <<NewSnapshot(1, data), NewSnapshot(2, data)>>
     /\ humanOverrides = <<>>
     /\ memberships = InitMemberships
     /\ decisionLinks = <<>>
     /\ clients = InitClients
     /\ notifications = <<>>
     /\ apiKeyConfigured = TRUE
     /\ aiProvider = "openai"
     /\ worker = InitWorker
     /\ reqs = [s \in Slots |-> Idle]
     /\ served = 0

\* Relationship types a caller names, of the six there are.
RelationshipTypes == {"PRECEDENT", "SIMILAR_CASE"}

NextLink ==
  \E s \in Slots :
     \/ \E to \in DecisionIds, type \in RelationshipTypes : LinkArrive(s, 1, to, type)
     \/ LinkCreate(s)

SpecLink == InitLink /\ [][NextLink]_vars

\* Creations through the middleware, one at a time. A body can name a
\* client that is not there.
BodyClientIds == Clients \cup {3}

NextSession ==
  \/ Authenticate(FirstSlot)
  \/ \E client_id \in BodyClientIds :
        CreateDecisionHandler(FirstSlot, client_id, Acme, NoDeal)
  \/ UpsertNative(FirstSlot)
  \/ FindDeal(FirstSlot)
  \/ PersistDecision(FirstSlot, "review_manually")
  \/ CreateFail(FirstSlot)
  \/ CreateRespond(FirstSlot)

SpecSession == InitAccess /\ [][NextSession]_vars

\* Creations with every await of the external calls a step of its own. The
\* steps the process and the database take are taken when they can be; the
\* website and the provider answer or do not.
ProcessSteps ==
  \/ UpsertNative(FirstSlot)
  \/ FindDeal(FirstSlot)
  \/ GatherStart(FirstSlot)
  \/ FetchAbort(FirstSlot)
  \/ AskProvider(FirstSlot)
  \/ PersistRecommended(FirstSlot)
  \/ CreateRespond(FirstSlot)

NextLive ==
  \/ \E companyData \in CompanyBodies : CreateArrive(FirstSlot, 1, companyData, NoDeal)
  \/ ProcessSteps
  \/ \E fetched \in Fetches : FetchSettles(FirstSlot, fetched)
  \/ \E fetched \in Fetches : BodyArrives(FirstSlot, fetched)
  \/ \E reply \in ProviderReplies : ProviderSettles(FirstSlot, reply)

SpecLive == InitRecommend /\ [][NextLive]_vars /\ WF_vars(ProcessSteps)

\* Membership calls, two at a time. A caller can name a membership that is
\* not there.
MembershipIds == 1..5
\* Roles a caller names, of the four there are.
NewRoles == {"ADMIN", "VIEWER"}

Member(s) ==
  \/ \E kind \in {"approve", "reject", "remove"}, id \in MembershipIds, u \in Users :
        MemberArrive(s, kind, id, u, "")
  \/ \E id \in MembershipIds, u \in Users, role \in NewRoles :
        MemberArrive(s, "role", id, u, role)
  \/ FindMembership(s)
  \/ AssertCallerIsAdmin(s)
  \/ CountAdmins(s)
  \/ ApplyMembership(s)

NextMembers == \E s \in Slots : Member(s)

SpecMembers == Init /\ [][NextMembers]_vars

\* Requests at the Workers entry point, two at a time, from a cold start.
NextWorker ==
  \/ \E s \in Slots : WorkerFetch(s) \/ WorkerDispatch(s)
  \/ \E k \in 1..MaxRequests : InitSucceeds(k) \/ InitFails(k) \/ InitTimeout(k)

SpecWorker == Init /\ [][NextWorker]_vars

\* ------------------------------------------------------------ properties
\* The step in which the review of slot s commits its transaction.
Commits(s) == reqs[s].pc = "updated" /\ reqs'[s].pc = "committed"

\* The step in which the transaction of slot s is rolled back.
RollsBack(s) == reqs[s].pc = "updated" /\ reqs'[s].pc = "done"

\* The override rows of a decision.
OverridesOf(d) == {i \in 1..Len(humanOverrides) : humanOverrides[i].decisionId = d}

\* C1: every override review that goes through leaves the decision
\* OVERRIDDEN and appends exactly one override row of that decision, with or
\* without a note.
C1_OverrideAppendsOneRow ==
  [][\A s \in Slots :
       (Commits(s) /\ reqs[s].action = "override") =>
          /\ decisions'[reqs[s].decisionId].status = "OVERRIDDEN"
          /\ Len(humanOverrides') = Len(humanOverrides) + 1
          /\ humanOverrides'[Len(humanOverrides')].decisionId = reqs[s].decisionId]_vars

\* C2: the review's writes become visible in one step or not at all.  The
\* commit shows the new status, final action, decider and time together with
\* the override row the review records; a transaction that fails after its
\* update shows nothing; and no other step, of this or a concurrent request,
\* shows the one without the other.
C2_ReviewAtomic ==
  [][/\ \A s \in Slots :
          Commits(s) =>
            /\ decisions'[reqs[s].decisionId] =
                 UpdatedDecision(decisions[reqs[s].decisionId], reqs[s])
            /\ humanOverrides' =
                 IF RecordsOverride(reqs[s].status, reqs[s].overrideUserId,
                                    reqs[s].overrideReason)
                 THEN Append(humanOverrides, NewOverride(reqs[s]))
                 ELSE humanOverrides
     /\ \A s \in Slots :
          RollsBack(s) => decisions' = decisions /\ humanOverrides' = humanOverrides
     /\ \A d \in 1..Len(decisions) :
          decisions'[d] # decisions[d] =>
            \E s \in Slots : Commits(s) /\ reqs[s].decisionId = d
     /\ humanOverrides' # humanOverrides =>
          \E s \in Slots :
             /\ Commits(s)
             /\ humanOverrides' = Append(humanOverrides, NewOverride(reqs[s]))
             /\ decisions'[reqs[s].decisionId].status = "OVERRIDDEN"
             /\ decisions'[reqs[s].decisionId].decidedBy = reqs[s].userId]_vars

\* An override has committed with its row while a concurrent review's
\* transaction has failed after its update.
C2_Witness ==
  \E s, t \in Slots :
     /\ reqs[s].pc = "committed" /\ reqs[s].action = "override"
     /\ OverridesOf(reqs[s].decisionId) # {}
     /\ decisions[reqs[s].decisionId].status = "OVERRIDDEN"
     /\ reqs[t].pc = "done" /\ reqs[t].error = "Database Error"
     /\ reqs[t].decisionId = reqs[s].decisionId

C4_EscalateSucceeds ==
  \A s \in Slots :
     (/\ reqs[s].pc = "done" /\ reqs[s].kind = "review"
      /\ reqs[s].action = "escalate"
      /\ reqs[s].decisionId \in 1..Len(decisions)) =>
        /\ reqs[s].code = 200
        /\ decisions[reqs[s].decisionId].status = "ESCALATED"
        /\ decisions[reqs[s].decisionId].finalAction = "escalated"

\* C5: a review whose resolved client is A changes no decision of another
\* client B, nor adds an override row to one.
C5_ReviewStaysInClient ==
  [][\A s \in Slots :
       (/\ reqs[s].kind = "review" /\ reqs[s].clientId # NoId
        /\ reqs'[s].pc # reqs[s].pc) =>
          \A d \in 1..Len(decisions) :
             decisions[d].clientId # reqs[s].clientId =>
               /\ decisions'[d] = decisions[d]
               /\ \A i \in (Len(humanOverrides) + 1)..Len(humanOverrides') :
                     humanOverrides'[i].decisionId # d]_vars

\* C6: a read scoped to client A of a decision of another client B is
\* answered 404, although the id exists.
C6_ScopedReadNotFound ==
  \A s \in Slots :
     (/\ reqs[s].pc = "done" /\ reqs[s].kind = "get"
      /\ reqs[s].clientId # NoId
      /\ reqs[s].decisionId \in 1..Len(decisions)
      /\ decisions[reqs[s].decisionId].clientId # reqs[s].clientId) =>
        reqs[s].code = 404 /\ reqs[s].error = "Decision not found"

\* A scoped read of another client's decision has been answered.
C6_Witness ==
  \E s \in Slots :
     /\ reqs[s].pc = "done" /\ reqs[s].kind = "get" /\ reqs[s].code = 404
     /\ reqs[s].clientId # NoId
     /\ reqs[s].decisionId \in 1..Len(decisions)
     /\ decisions[reqs[s].decisionId].clientId # reqs[s].clientId

\* C7: no read or review runs for a request that resolved no client: such a
\* request ends in authenticate.
C7_NoClientNoHandler ==
  \A s \in Slots :
     reqs[s].kind \in {"get", "review"} => reqs[s].clientId # NoId

\* Requests that have entered processDecisionCreation and not left it.
Creating == {s \in Slots : reqs[s].kind = "create" /\ InFlight(s)}

\* C8: creation is all or nothing.  Creation requests alone write company
\* and deal rows, each for the decision it goes on to persist, so once no
\* creation is in flight every company row and every deal row belongs to a
\* decision: a failed request has left none behind.
C8_CreationAllOrNothing ==
  Creating = {} =>
    /\ \A i \in 1..Len(subjectCompanies) :
          \E d \in 1..Len(decisions) : decisions[d].subjectCompanyId = i
    /\ \A i \in 1..Len(deals) :
          \E d \in 1..Len(decisions) : decisions[d].dealId = i

\* C9: at most one subject company row per (client, external id).
C9_OneRowPerKey ==
  \A i, j \in 1..Len(subjectCompanies) :
     (/\ subjectCompanies[i].clientId = subjectCompanies[j].clientId
      /\ subjectCompanies[i].externalId = subjectCompanies[j].externalId) => i = j

\* Two identical calls have raced: both read before either wrote; one has
\* inserted the row and the other has made its write.
C9_Witness ==
  \E s, t \in Slots :
     /\ s # t
     /\ reqs[s].kind = "create" /\ reqs[s].pc = "deal"
     /\ reqs[t].kind = "create" /\ reqs[t].error = "P2002"
     /\ reqs[t].clientId = reqs[s].clientId
     /\ reqs[t].company.externalId = reqs[s].company.externalId
     /\ Len(subjectCompanies) = 1

SnapshotsOf(d) == {i \in 1..Len(contextSnapshots) : contextSnapshots[i].decisionId = d}

\* C11: in every state each decision has exactly one context snapshot, and
\* every snapshot is of a decision: the two appear together.
C11_OneSnapshotPerDecision ==
  /\ \A d \in 1..Len(decisions) : Cardinality(SnapshotsOf(d)) = 1
  /\ \A i \in 1..Len(contextSnapshots) :
        contextSnapshots[i].decisionId \in 1..Len(decisions)

\* Two creations have persisted their decisions and a third has failed.
C11_Witness ==
  /\ Len(decisions) = 2
  /\ \E s \in Slots : /\ reqs[s].kind = "create" /\ reqs[s].pc = "done"
                       /\ reqs[s].code = 500

\* C12: no step of a creation, a review or a read changes or removes a
\* snapshot there is, and in every state an insert of a second snapshot for
\* a decision is refused by the unique index.
C12_SnapshotImmutable ==
  /\ [][/\ Len(contextSnapshots') >= Len(contextSnapshots)
        /\ \A i \in 1..Len(contextSnapshots) :
              contextSnapshots'[i] = contextSnapshots[i]]_vars
  /\ [](\A d \in 1..Len(decisions) :
          ~CreateSnapshot(contextSnapshots,
                          [decisionId |-> d, signals |-> "other signals",
                           agentRationale |-> Undefined]).ok)

\* A decision has been reviewed and another created after it.
C12_Witness ==
  /\ Len(decisions) = 2 /\ Len(contextSnapshots) = 2
  /\ decisions[1].status = "OVERRIDDEN"
  /\ humanOverrides # <<>>

\* C13: no step removes a decision or changes its type, client, subject
\* company or recommendation; status, final action, decider and decided-at
\* change only in the commit of a review of that decision.
C13_DecisionFrame ==
  [][/\ Len(decisions') >= Len(decisions)
     /\ \A d \in 1..Len(decisions) :
          /\ decisions'[d] =
               [decisions[d] EXCEPT !.status = decisions'[d].status,
                                    !.finalAction = decisions'[d].finalAction,
                                    !.decidedBy = decisions'[d].decidedBy,
                                    !.decidedAt = decisions'[d].decidedAt]
          /\ decisions'[d] # decisions[d] =>
               \E s \in Slots :
                  /\ Commits(s) /\ reqs[s].kind = "review"
                  /\ reqs[s].decisionId = d]_vars

\* A decision has been reviewed and another created after it.
C13_Witness ==
  /\ Len(decisions) = 2
  /\ decisions[1].status = "REJECTED" /\ decisions[1].decidedBy \in Users
  /\ decisions[1].decisionType = "DISCOUNT"

\* Creation requests that hold the recommendation of their step 4.
Recommended == {s \in Slots : reqs[s].kind = "create" /\ reqs[s].recommendation # ""}

\* C14: with no provider key, or with a provider call that fails, the
\* creation goes on with the fallback: recommendation review_manually and
\* confidence low, the decision persisted as PROPOSED with that
\* recommendation and answered 201; the recommender ends no creation.
C14_FallbackRecommendation ==
  /\ \A s \in Slots : reqs[s].error # "Recommender Error"
  /\ \A s \in Recommended :
        (aiProvider # "openai" \/ reqs[s].aiReply \in FailingReplies) =>
          /\ reqs[s].recommendation = "review_manually"
          /\ reqs[s].confidence = "low"
          /\ reqs[s].decisionId # NoId =>
                /\ decisions[reqs[s].decisionId].status = "PROPOSED"
                /\ decisions[reqs[s].decisionId].recommendedAction = "review_manually"
          /\ reqs[s].pc = "done" => reqs[s].code \in {201, 500}

\* A creation whose provider call timed out has been answered 201.
C14_Witness ==
  \E s \in Recommended :
     /\ aiProvider = "openai" /\ reqs[s].aiReply = "timeout"
     /\ reqs[s].pc = "done" /\ reqs[s].code = 201
     /\ decisions[reqs[s].decisionId].recommendedAction = "review_manually"

\* C15: whatever the website fetch and the provider do, neither
\* gatherContext nor the recommender ends a creation with an error, and the
\* creation goes on with a recommendation and a confidence of the
\* enumerations.
C15_NeverRaises ==
  \A s \in Slots :
     /\ reqs[s].error \notin {"Context Error", "Recommender Error"}
     /\ reqs[s].aiReply # "" =>
          /\ s \in Recommended
          /\ reqs[s].recommendation \in
               {"approve", "approve_with_conditions", "reject", "review_manually"}
          /\ reqs[s].confidence \in {"low", "medium", "high"}

\* A creation has gone on after a malformed provider answer, for a company
\* with a domain.
C15_Witness ==
  \E s \in Recommended :
     /\ reqs[s].aiReply = "malformed" /\ Truthy(reqs[s].company.domain)
     /\ reqs[s].pc = "created"

\* C16: the commit of a review writes the row of the transition table:
\* approve gives APPROVED with the recommended action, or "approved" when
\* there is none; reject gives REJECTED with "rejected"; override gives
\* OVERRIDDEN with the caller's final-action text, or "overridden" when
\* there is none; and the acting user and the review time become decided-by
\* and decided-at.
C16_TransitionTable ==
  [][\A s \in Slots :
       Commits(s) =>
         LET before == decisions[reqs[s].decisionId]
             after == decisions'[reqs[s].decisionId]
         IN /\ reqs[s].action \in {"approve", "reject", "override"}
            /\ reqs[s].action = "approve" =>
                  /\ after.status = "APPROVED"
                  /\ after.finalAction =
                       IF Truthy(before.recommendedAction)
                       THEN before.recommendedAction ELSE "approved"
            /\ reqs[s].action = "reject" =>
                  after.status = "REJECTED" /\ after.finalAction = "rejected"
            /\ reqs[s].action = "override" =>
                  /\ after.status = "OVERRIDDEN"
                  /\ after.finalAction =
                       IF Truthy(reqs[s].final_action)
                       THEN reqs[s].final_action ELSE "overridden"
            /\ after.decidedBy = reqs[s].userId /\ reqs[s].userId \in Users
            /\ after.decidedAt = Now]_vars

\* An approval has been answered 200 and an override with a final-action
\* text has been committed.
C16_Witness ==
  \E d \in 1..Len(decisions), s \in Slots :
     /\ decisions[d].status = "OVERRIDDEN" /\ decisions[d].finalAction = "approved 20%"
     /\ decisions[d].decidedBy \in Users /\ decisions[d].decidedAt = Now
     /\ reqs[s].pc = "done" /\ reqs[s].action = "approve" /\ reqs[s].code = 200

\* C17: every row a step adds to decisions has status PROPOSED and no
\* final action, decider or decided-at.
C17_CreatedProposed ==
  [][\A d \in (Len(decisions) + 1)..Len(decisions') :
       /\ decisions'[d].status = "PROPOSED"
       /\ decisions'[d].finalAction = Undefined
       /\ decisions'[d].decidedBy = NoId
       /\ decisions'[d].decidedAt = NoTime]_vars

\* A creation has persisted its decision and holds its id.
C17_Witness ==
  \E s \in Slots :
     /\ reqs[s].kind = "create" /\ reqs[s].pc = "created"
     /\ decisions[reqs[s].decisionId].status = "PROPOSED"
     /\ decisions[reqs[s].decisionId].decidedBy = NoId

\* C18: override rows are only appended, one at a time, and only by the
\* commit of an override review, which leaves the decision OVERRIDDEN; a
\* review with another action appends none, and no step changes or removes
\* a row there is.
C18_OverridesAppendOnly ==
  [][/\ Len(humanOverrides') \in {Len(humanOverrides), Len(humanOverrides) + 1}
     /\ \A i \in 1..Len(humanOverrides) : humanOverrides'[i] = humanOverrides[i]
     /\ Len(humanOverrides') > Len(humanOverrides) =>
          \E s \in Slots :
             /\ Commits(s) /\ reqs[s].action = "override"
             /\ humanOverrides'[Len(humanOverrides')].decisionId = reqs[s].decisionId
             /\ decisions'[reqs[s].decisionId].status = "OVERRIDDEN"
     /\ \A s \in Slots :
          (Commits(s) /\ reqs[s].action # "override") =>
             humanOverrides' = humanOverrides]_vars

\* An approval with a note has been committed after an override, and the
\* override's row is the only one.
C18_Witness ==
  \E s \in Slots :
     /\ reqs[s].pc = "committed" /\ reqs[s].action = "approve"
     /\ Truthy(reqs[s].overrideReason)
     /\ Len(humanOverrides) = 1
     /\ humanOverrides[1].decisionId = reqs[s].decisionId

\* The step in which the creation of slot s has its company resolved.
ResolvesCompany(s) ==
  /\ reqs[s].kind = "create"
  /\ reqs[s].pc \in {"company", "upserting"} /\ reqs'[s].pc = "deal"

\* C19: a call for a key that has a row leaves one row of that key, with
\* its id, client and external id as they were, its name that of the call,
\* and its domain that of the call, or the previous one when the call gives
\* none; every other row is left alone.
C19_SecondCallUpdates ==
  [][\A s \in Slots :
       LET id == CompanyByKey(subjectCompanies, reqs[s].clientId,
                              reqs[s].company.externalId)
       IN (ResolvesCompany(s) /\ id # NoId) =>
            /\ Len(subjectCompanies') = Len(subjectCompanies)
            /\ reqs'[s].companyId = id
            /\ subjectCompanies'[id].clientId = subjectCompanies[id].clientId
            /\ subjectCompanies'[id].externalId = subjectCompanies[id].externalId
            /\ subjectCompanies'[id].name = reqs[s].company.name
            /\ subjectCompanies'[id].domain =
                  IF Truthy(reqs[s].company.domain)
                  THEN reqs[s].company.domain
                  ELSE subjectCompanies[id].domain
            /\ \A i \in 1..Len(subjectCompanies) :
                  i # id => subjectCompanies'[i] = subjectCompanies[i]]_vars

\* A second call without a domain has renamed the row and kept the domain
\* of the first.
C19_Witness ==
  /\ Len(subjectCompanies) = 1
  /\ subjectCompanies[1].name = "Acme" /\ subjectCompanies[1].domain = "acme.io"
  /\ \E s \in Slots : /\ reqs[s].kind = "create" /\ reqs[s].pc = "deal"
                       /\ reqs[s].company = Acme /\ reqs[s].companyId = 1

\* C20: a creation without a deal gets null and no deal row is written; one
\* whose deal carries a CRM id that a deal of the company has gets that
\* deal and no row is written; every other gets a new row of its own, the
\* only one its call writes.
C20_ResolveDeal ==
  [][\A s \in Slots :
       LET existing == DealByCrmId(reqs[s].companyId, reqs[s].deal.crm_deal_id)
       IN /\ (reqs[s].pc = "deal" /\ reqs'[s].pc # "deal") => deals' = deals
          /\ (reqs[s].pc = "deal" /\ reqs'[s].pc \notin {"deal", "done"} /\ ~reqs[s].deal.given) =>
                reqs'[s].pc = "decision" /\ reqs'[s].dealId = NoId
          /\ (/\ reqs[s].pc = "deal" /\ reqs'[s].pc \notin {"deal", "done"} /\ reqs[s].deal.given
              /\ Truthy(reqs[s].deal.crm_deal_id) /\ existing # NoId) =>
                reqs'[s].pc = "decision" /\ reqs'[s].dealId = existing
          /\ (/\ reqs[s].pc = "deal" /\ reqs'[s].pc \notin {"deal", "done"} /\ reqs[s].deal.given
              /\ (Truthy(reqs[s].deal.crm_deal_id) => existing = NoId)) =>
                reqs'[s].pc = "dealing"
          /\ (reqs[s].pc = "dealing" /\ reqs'[s].pc = "decision") =>
                /\ deals' = Append(deals, NewDeal(reqs[s].companyId, reqs[s].deal))
                /\ reqs'[s].dealId = Len(deals')]_vars

\* A deal with a CRM id and one without have been created, and a later
\* creation with that CRM id has got the first.
C20_Witness ==
  \E s \in Slots :
     /\ reqs[s].kind = "create" /\ reqs[s].pc = "decision"
     /\ reqs[s].deal.crm_deal_id = "crm-7" /\ reqs[s].dealId = 1
     /\ Len(deals) = 2
     /\ deals[1].crmDealId = "crm-7" /\ deals[2].crmDealId = Undefined

\* Rows of decision_links that carry a triple.
LinksOf(link) == {i \in 1..Len(decisionLinks) : decisionLinks[i] = link}

\* C21: no linkDecisions call ends in an error, no (from, to, type) has two
\* link rows, and once a call naming two decisions there are has returned
\* there is exactly one row of its triple.
C21_LinkIdempotent ==
  /\ \A i, j \in 1..Len(decisionLinks) : decisionLinks[i] = decisionLinks[j] => i = j
  /\ \A s \in Slots :
       (reqs[s].kind = "link" /\ reqs[s].pc = "done") =>
         /\ reqs[s].error = ""
         /\ reqs[s].returned \in {"row", "null"}
         /\ (/\ reqs[s].link.fromDecisionId \in 1..Len(decisions)
             /\ reqs[s].link.toDecisionId \in 1..Len(decisions)) =>
               Cardinality(LinksOf(reqs[s].link)) = 1

\* Two concurrent calls with one triple have both returned, one with the
\* row and one with null.
C21_Witness ==
  /\ \A s \in Slots : reqs[s].kind = "link" /\ reqs[s].pc = "done"
  /\ reqs["a"].link = reqs["b"].link
  /\ reqs["a"].link.toDecisionId = 2
  /\ {reqs["a"].returned, reqs["b"].returned} = {"row", "null"}
  /\ Len(decisionLinks) = 1

\* C22: a creation that a user session sent acts on a client in which
\* that user has an ACTIVE membership.
C22_SessionClientIsMember ==
  \A s \in Slots :
     (reqs[s].kind = "create" /\ InFlight(s) /\ reqs[s].userId # NoId) =>
       \E m \in memberships : /\ m.userId = reqs[s].userId
                              /\ m.clientId = reqs[s].clientId
                              /\ m.status = "ACTIVE"

\* C24: a creation for a client that is not there is answered 404 and one
\* for a deactivated client 403 (the database being up), and no decision is
\* of such a client.
C24_MissingOrInactiveClient ==
  /\ \A s \in Slots :
       (/\ reqs[s].kind = "create" /\ reqs[s].pc = "done"
        /\ reqs[s].error # "Database Error") =>
         /\ ~ClientExists(reqs[s].clientId) => reqs[s].code = 404
         /\ (ClientExists(reqs[s].clientId) /\ ~clients[reqs[s].clientId].active) =>
              reqs[s].code = 403
  /\ \A d \in 1..Len(decisions) :
       ClientExists(decisions[d].clientId) /\ clients[decisions[d].clientId].active

\* C23: a review whose action is none of approve, reject, override and
\* escalate is answered 400 by the handler's own step, which leaves the
\* decisions and the overrides as they are, and goes no further.
C23_InvalidActionRejected ==
  /\ [](\A s \in Slots :
          (reqs[s].kind = "review" /\ reqs[s].action \notin reviewDecisionSchema) =>
            reqs[s].pc = "done" /\ reqs[s].code = 400)
  /\ [][\A s \in Slots :
          (/\ reqs[s].pc = "authed" /\ reqs'[s].kind = "review"
           /\ reqs'[s].action \notin reviewDecisionSchema) =>
            decisions' = decisions /\ humanOverrides' = humanOverrides]_vars

\* A review with action archive of a proposed decision has been answered
\* 400.
C23_Witness ==
  \E s \in Slots :
     /\ reqs[s].kind = "review" /\ reqs[s].pc = "done"
     /\ reqs[s].action = "archive" /\ reqs[s].code = 400
     /\ reqs[s].decisionId \in 1..Len(decisions)
     /\ decisions[reqs[s].decisionId].status = "PROPOSED"

\* C25: every creation that has been taken is answered in the end, whether
\* or not the website and the provider answer.
C25_CreationCompletes ==
  \A s \in Slots :
     (reqs[s].kind = "create" /\ InFlight(s)) ~> (reqs[s].pc = "done")

\* C26: no two deal rows of one company carry the same CRM deal id, and a
\* creation that named a CRM deal id holds the one row that carries it.
C26_OneDealPerExternalId ==
  /\ \A i, j \in 1..Len(deals) :
       (/\ Truthy(deals[i].crmDealId)
        /\ deals[i].subjectCompanyId = deals[j].subjectCompanyId
        /\ deals[i].crmDealId = deals[j].crmDealId) => i = j
  /\ \A s \in Slots :
       (reqs[s].kind = "create" /\ reqs[s].dealId # NoId /\ Truthy(reqs[s].deal.crm_deal_id)) =>
         reqs[s].dealId = DealByCrmId(reqs[s].companyId, reqs[s].deal.crm_deal_id)

\* ACTIVE admins and owners of a client.
ActiveAdmins(clientId) ==
  {m \in memberships : m.clientId = clientId /\ m.status = "ACTIVE" /\ m.role \in AdminRoles}

\* Notifications written about a membership.
NotificationsOf(membershipId) ==
  {i \in 1..Len(notifications) : notifications[i].membershipId = membershipId}

\* C27: the status of a membership that is not PENDING never changes and no
\* notification is written about it, and no membership has had more than
\* one approval or rejection take effect.
C27_OnlyPendingDecided ==
  /\ [][\A m \in memberships :
          m.status # "PENDING" =>
            /\ \A n \in memberships' : n.id = m.id => n.status = m.status
            /\ Cardinality(NotificationsOf(m.id)') = Cardinality(NotificationsOf(m.id))]_vars
  /\ [](\A id \in MembershipIds : Cardinality(NotificationsOf(id)) <= 1)

\* C28: a client with an ACTIVE admin or owner has one after every step.
C28_LastAdminStays ==
  [][\A c \in Clients : ActiveAdmins(c) # {} => ActiveAdmins(c)' # {}]_vars

\* C29: an approval, a rejection or a role change is applied only for a
\* caller who, as it is applied, is an ACTIVE admin or owner of the
\* membership's client, and a call that fails changes no membership and no
\* notification.
C29_OnlyAdminsChange ==
  [][\A s \in Slots :
       (reqs[s].kind \in {"approve", "reject", "role"} /\ InFlight(s) /\ reqs'[s].pc = "done") =>
         IF reqs'[s].code = 200
         THEN \E m \in ActiveAdmins(findMembershipById(reqs[s].membershipId).clientId) :
                 m.userId = reqs[s].userId
         ELSE memberships' = memberships /\ notifications' = notifications]_vars

\* Start-ups whose promise is not settled.
PendingStartUps == {k \in 1..Len(worker.promises) : worker.promises[k] = "pending"}

\* C30: a start-up begins only when appReady holds none, so at most one is
\* pending and the requests that arrive meanwhile await it; a request is
\* dispatched only to an app a finished initializeApp has set; and appReady
\* never holds a start-up that failed or timed out.
C30_SingleFlight ==
  /\ [](/\ Cardinality(PendingStartUps) <= 1
        /\ worker.appReady # NoId => worker.promises[worker.appReady] # "rejected"
        /\ \A s \in Slots :
             (reqs[s].kind = "fetch" /\ reqs[s].pc = "done" /\ reqs[s].code = 200) =>
               /\ worker.promises[reqs[s].awaited] = "resolved"
               /\ reqs[s].app # NoId /\ worker.inits[reqs[s].app] = "done"
        /\ \A s \in Slots :
             (reqs[s].kind = "fetch" /\ reqs[s].pc = "done") => reqs[s].error # "TypeError")
  /\ [][/\ Len(worker.inits') > Len(worker.inits) => worker.appReady = NoId
        /\ \A s \in Slots :
             (reqs'[s].pc = "awaiting" /\ reqs[s].pc # "awaiting" /\ worker.appReady # NoId) =>
               reqs'[s].awaited = worker.appReady /\ worker' = worker]_vars

\* The first start-up timed out, a request started a second, and a request
\* that shared the second has been dispatched to its app.
C30_Witness ==
  /\ Len(worker.inits) = 2
  /\ worker.promises = <<"rejected", "resolved">>
  /\ reqs["a"].kind = "fetch" /\ reqs["a"].awaited = 2 /\ reqs["a"].pc = "awaiting"
  /\ reqs["b"].kind = "fetch" /\ reqs["b"].awaited = 2 /\ reqs["b"].code = 200

====
